---------------------------- MODULE Spec2Model ----------------------------
(* Verification model of obsidian-ai-transcriber:                          *)
(*   - ConcurrencyLimiter and the chunked TranscriberService.transcribe    *)
(*     (src/src/services/recorder.ts)                                      *)
(*   - withRetry (src/src/utils/retry.ts, and its two copies)              *)
(*   - cleanupRepetitiveCharacters                                         *)
(*   - the silence processing of TranscriberService.preprocess             *)
(* Strings are sequences of UTF-16 code units (one-character strings).     *)
EXTENDS Integers, Sequences, FiniteSets, TLC

VARIABLES
    \* ---- chunked transcribe + ConcurrencyLimiter ----
    provider,       \* settings.provider
    limit,          \* ConcurrencyLimiter.limit (configuredLimit)
    response,       \* what the remote service answers for chunk k (environment)
    running,        \* ConcurrencyLimiter.running
    queue,          \* ConcurrencyLimiter.queue (task numbers, 1-based)
    stage,          \* position of each task closure pushed by run()
    startOrder,     \* history: tasks in the order their fn() was invoked
    settleOrder,    \* history: tasks in the order they settled
    calls,          \* history: remote transcription calls issued per chunk
    promise,        \* the promise returned by run() for each chunk
    allState,       \* Promise.all(transcriptionPromises): state and value
    tpc,            \* position of transcribe()
    fullText,       \* fullText after the join (recorder.ts:305 / 355)
    outcome,        \* what transcribe() returned or threw
    \* ---- withRetry ----
    context,        \* context string of the log and error messages
    maxAttempts,    \* maxAttempts / MAX_ATTEMPTS
    baseDelayMs,    \* baseDelayMs / RETRY_DELAY_MS
    attempt,        \* loop variable
    lastError,      \* lastError
    rpc,            \* position of withRetry()
    invocations,    \* history: number of times fn() was called
    inFlight,       \* history: fn() calls not yet settled
    failures,       \* history: messages of the failures of fn(), in order
    delays,         \* history: delays passed to setTimeout, in order
    elapsed,        \* history: timers that have fired
    retryOutcome,   \* what withRetry() returned or threw
    \* ---- cleanupRepetitiveCharacters ----
    inputText,      \* argument text
    inputMaxRepeats,\* argument maxRepeats
    cleanedText,    \* return value
    cpc,            \* "input" before the call, "cleaned" after it
    \* ---- silence processing of preprocess ----
    rawData,        \* resampled.getChannelData(0), samples in thousandths
    processedLength,\* length computed by the first pass
    data,           \* the Float32Array written by the second pass
    writeIndex,     \* writeIndex at the end of the second pass
    renormalized,   \* the silence processing applied to its own output
    spc,             \* "resampled", "normalized", "renormalized"
    \* ---- chunking loop of preprocess ----
    totalSamples,   \* data.length
    maxSecsInput,   \* argument maxSecsInput (unset: default 300)
    chunks,         \* the chunks pushed by the loop, with their sample ranges
    kpc,             \* "normalized" before the loop, "chunked" after it
    \* ---- RecorderService ----
    now,            \* Date.now(), in ms
    mediaRecorder,  \* this.mediaRecorder: 0 for null, else a MediaRecorder object
    recorders,      \* the MediaRecorder objects: state and onstop handler
    recordedChunks, \* this.recordedChunks (number of blobs)
    startTime,      \* this.startTime
    pauseTime,      \* this.pauseTime
    totalPausedTime,\* this.totalPausedTime
    finalElapsed,   \* this.finalElapsed: << >> for null, else <<ms>>
    stopPromise,    \* this.stopPromise: 0 for undefined/null, else a promise
    promises,       \* the promises made by start()
    eventQueue,     \* stop events queued by MediaRecorder.stop()
    fixing,         \* onstop handlers awaiting fixWebmDuration
    stream,         \* this.stream
    audioContext,   \* this.audioContext
    sourceNode,     \* this.sourceNode
    analyserNode,   \* this.analyserNode
    startPc,        \* the start() call in flight
    stops,          \* the stop() calls in flight
    trackStops,     \* track.stop() rounds on the stream of this recording
    disconnects,    \* sourceNode.disconnect() calls of this recording
    closeCalls,     \* audioContext.close() calls of this recording
    recordingMs,    \* time spent in state 'recording' since the last start() call
    returned,        \* how the last stop() call ended
    \* ---- upload-based TranscriberService.transcribe ----
    upSettings,     \* settings: whether apiKey and model are set
    upc,            \* where the upload-based transcribe() is
    upWait,         \* withRetry: awaiting the call or the backoff timer
    upAttempt,      \* withRetry: attempt
    upDelay,        \* withRetry: delay of the armed timer
    upLastError,    \* withRetry: lastError
    preprocessCalls,\* calls of this.preprocess
    uploads,        \* calls of genai.files.upload
    generates,      \* calls of genai.models.generateContent
    deletes,        \* calls of genai.files.delete
    deleteOutcome,  \* how the delete call ended
    upFullText,     \* fullText
    upResult,       \* what transcribe() returned
    upError,         \* what transcribe() threw
    \* ---- FileService ----
    variant,        \* which FileService is built: src/services/file.ts or part_001
    vault,          \* the files of the vault, by path
    saved,           \* the last saveTextWithName: the path returned and the text
    \* ---- SettingsTab (template management) ----
    systemPromptTemplates,  \* settings.editor.systemPromptTemplates: the names, in order
    activeSystemPromptTemplateName,  \* settings.editor.activeSystemPromptTemplateName
    dropdownOptions,  \* the options of the selector as last rendered
    currentActiveTemplate  \* index of the template the name field and the delete button were rendered for, 0: none

dispVars == <<provider, limit, response, running, queue, stage, startOrder,
              settleOrder, calls, promise, allState, tpc, fullText, outcome>>

retryVars == <<context, maxAttempts, baseDelayMs, attempt, lastError, rpc,
               invocations, inFlight, failures, delays, elapsed, retryOutcome>>

cleanVars == <<inputText, inputMaxRepeats, cleanedText, cpc>>

silenceVars == <<rawData, processedLength, data, writeIndex, renormalized, spc>>

chunkVars == <<totalSamples, maxSecsInput, chunks, kpc>>

recVars == <<now, mediaRecorder, recorders, recordedChunks, startTime, pauseTime, totalPausedTime, finalElapsed, stopPromise, promises, eventQueue, fixing, stream, audioContext, sourceNode, analyserNode, startPc, stops, trackStops, disconnects, closeCalls, recordingMs, returned>>

upVars == <<upSettings, upc, upWait, upAttempt, upDelay, upLastError, preprocessCalls, uploads, generates, deletes, deleteOutcome, upFullText, upResult, upError>>

fileVars == <<variant, vault, saved>>

tabVars == <<systemPromptTemplates, activeSystemPromptTemplateName, dropdownOptions, currentActiveTemplate>>

vars == <<dispVars, retryVars, cleanVars, silenceVars, chunkVars, recVars, upVars, fileVars, tabVars>>

notDispVars == <<retryVars, cleanVars, silenceVars, chunkVars, recVars, upVars, fileVars, tabVars>>
notRetryVars == <<dispVars, cleanVars, silenceVars, chunkVars, recVars, upVars, fileVars, tabVars>>
notCleanVars == <<dispVars, retryVars, silenceVars, chunkVars, recVars, upVars, fileVars, tabVars>>
notSilenceVars == <<dispVars, retryVars, cleanVars, chunkVars, recVars, upVars, fileVars, tabVars>>
notChunkVars == <<dispVars, retryVars, cleanVars, silenceVars, recVars, upVars, fileVars, tabVars>>
notRecVars == <<dispVars, retryVars, cleanVars, silenceVars, chunkVars, upVars, fileVars, tabVars>>
notUpVars == <<dispVars, retryVars, cleanVars, silenceVars, chunkVars, recVars, fileVars, tabVars>>
notFileVars == <<dispVars, retryVars, cleanVars, silenceVars, chunkVars, recVars, upVars, tabVars>>
notTabVars == <<dispVars, retryVars, cleanVars, silenceVars, chunkVars, recVars, upVars, fileVars>>

----------------------------------------------------------------------------
(* Bounds *)
MaxChunks == 3
MaxTemplates == 4
MaxLimit == 2
MaxMaxAttempts == 4
MaxTextLen == 6
MaxMaxRepeats == 2
MaxBufLen == 8
\* the sample rate of the model: every sample count of preprocess is a
\* multiple of the rate (16000 in the program)
ScaledSampleRate == 2
MaxTotalSamples == 24
MaxMaxSecs == 4
MaxTime == 4
MaxRecordings == 1
MaxStops == 2
MaxReleases == 3
MaxCounter == 3

(* Program constants *)
DEFAULT_MAX_REPEATS == 10
DEFAULT_CONCURRENCY == 6
MAX_ATTEMPTS == 3
DEFAULT_BASE_DELAY_MS == 1000

Max(a, b) == IF a >= b THEN a ELSE b
Min(a, b) == IF a <= b THEN a ELSE b

Chars == {"a", "b", "\n"}
Undefined == [defined |-> FALSE, text |-> <<>>]

\* name: 'Default'
DefaultName == <<"D", "e", "f", "a", "u", "l", "t">>
Str(t) == [defined |-> TRUE, text |-> t]

\* texts a remote transcription call may answer with
Texts == {<<"a">>, <<"b", "b">>}

----------------------------------------------------------------------------
(* Components at rest: each specification below exercises one component and  *)
(* leaves the others as constructed.                                       *)

\* the dispatcher before transcribe() is called
IdleDispatch ==
    /\ provider = "openai"
    /\ limit = 1
    /\ response = << >>
    /\ running = 0
    /\ queue = << >>
    /\ stage = << >>
    /\ startOrder = << >>
    /\ settleOrder = << >>
    /\ calls = << >>
    /\ promise = << >>
    /\ allState = [state |-> "pending"]
    /\ tpc = "idle"
    /\ fullText = << >>
    /\ outcome = [kind |-> "none"]

\* withRetry before it is called
IdleRetry ==
    /\ context = "Operation"
    /\ maxAttempts = MAX_ATTEMPTS
    /\ baseDelayMs = DEFAULT_BASE_DELAY_MS
    /\ attempt = 0
    /\ lastError = [message |-> "undefined"]
    /\ rpc = "idle"
    /\ invocations = 0
    /\ inFlight = 0
    /\ failures = << >>
    /\ delays = << >>
    /\ elapsed = << >>
    /\ retryOutcome = [kind |-> "none"]

----------------------------------------------------------------------------
\* cleanupRepetitiveCharacters before it is called
IdleCleanup ==
    /\ inputText = << >>
    /\ inputMaxRepeats = DEFAULT_MAX_REPEATS
    /\ cleanedText = << >>
    /\ cpc = "idle"

\* preprocess before it is called
IdlePreprocess ==
    /\ rawData = << >>
    /\ processedLength = 0
    /\ data = << >>
    /\ writeIndex = 0
    /\ renormalized = << >>
    /\ spc = "idle"

\* the chunking loop before it is reached
IdleChunk ==
    /\ totalSamples = 0
    /\ maxSecsInput = [set |-> FALSE, value |-> 0]
    /\ chunks = << >>
    /\ kpc = "idle"


IdleRecorder ==
    /\ now = 1
    /\ mediaRecorder = 0
    /\ recorders = [o \in 1..MaxRecordings |-> [state |-> "none", onstop |-> 0]]
    /\ recordedChunks = 0
    /\ startTime = 0
    /\ pauseTime = 0
    /\ totalPausedTime = 0
    /\ finalElapsed = << >>
    /\ stopPromise = 0
    /\ promises = [q \in 1..MaxRecordings |-> [state |-> "none", duration |-> 0, blobs |-> 0]]
    /\ eventQueue = << >>
    /\ fixing = {}
    /\ stream = "null"
    /\ audioContext = "null"
    /\ sourceNode = "null"
    /\ analyserNode = "null"
    /\ startPc = "idle"
    /\ stops = [i \in 1..MaxStops |-> [pc |-> "idle", awaits |-> 0, frozen |-> 0]]
    /\ trackStops = 0
    /\ disconnects = 0
    /\ closeCalls = 0
    /\ recordingMs = 0
    /\ returned = [kind |-> "none", duration |-> 0, blobs |-> 0, frozen |-> 0]


IdleUpload ==
    /\ upSettings = [apiKey |-> FALSE, model |-> FALSE]
    /\ upc = "idle"
    /\ upWait = "none"
    /\ upAttempt = 0
    /\ upDelay = 0
    /\ upLastError = "none"
    /\ preprocessCalls = 0
    /\ uploads = 0
    /\ generates = 0
    /\ deletes = 0
    /\ deleteOutcome = "none"
    /\ upFullText = << >>
    /\ upResult = Undefined
    /\ upError = [kind |-> "none", cause |-> "none"]


IdleFile ==
    /\ variant = "none"
    /\ vault = << >>
    /\ saved = [path |-> << >>, text |-> << >>]

\* the settings of the editor as shipped (DEFAULT_SETTINGS), the settings tab
\* not displayed
IdleTab ==
    /\ systemPromptTemplates = <<DefaultName>>
    /\ activeSystemPromptTemplateName = DefaultName
    /\ dropdownOptions = << >>
    /\ currentActiveTemplate = 0

----------------------------------------------------------------------------
(* cleanupRepetitiveCharacters: text.replace(/(.)\1{maxRepeats,}/g, char)   *)

LineTerminators == {"\n"}

\* `.` without the s flag matches any code unit except a line terminator
DotMatches(c) == c \notin LineTerminators

\* number of code units equal to c starting at position p (greedy \1{m,})
RECURSIVE RepeatsFrom(_, _, _)
RepeatsFrom(text, p, c) ==
    IF p <= Len(text) /\ text[p] = c
    THEN 1 + RepeatsFrom(text, p + 1, c)
    ELSE 0

\* the global replace: scan left to right from position p
RECURSIVE ReplaceFrom(_, _, _)
ReplaceFrom(text, p, maxRepeats) ==
    IF p > Len(text) THEN << >>
    ELSE LET c == text[p]
             k == RepeatsFrom(text, p + 1, c)
         IN  IF DotMatches(c) /\ k >= maxRepeats
             THEN <<c>> \o ReplaceFrom(text, p + 1 + k, maxRepeats)
             ELSE <<c>> \o ReplaceFrom(text, p + 1, maxRepeats)

cleanupRepetitiveCharacters(text, maxRepeats) ==
    IF Len(text) = 0 THEN text ELSE ReplaceFrom(text, 1, maxRepeats)

----------------------------------------------------------------------------
(* withRetry *)

\* Math.pow(2, n)
RECURSIVE pow2(_)
pow2(n) == IF n <= 0 THEN 1 ELSE 2 * pow2(n - 1)

backoffDelayDoubled(base, att) == base * pow2(att)

\* const delay = baseDelayMs * Math.pow(2, attempt - 1)
backoffDelay(base, att) == base * pow2(att - 1)

loopConditionExclusive(att, max) == att < max

\* for (...; attempt <= maxAttempts; ...)
loopCondition(att, max) == att <= max

\* if (attempt < maxAttempts) { ... await setTimeout ... }
sleepCondition(att, max) == att < max

\* new Error(`${context} failed after ${maxAttempts} attempts: ${lastError?.message}`)
terminalError(ctx, max, err) ==
    [context |-> ctx, attempts |-> max, cause |-> err.message]

Contexts == {"Operation", "Editor", "Transcription", "Editor request"}
BaseDelays == {DEFAULT_BASE_DELAY_MS, 250}
ErrorMessages == {"e1", "e2"}

InitRetry ==
    /\ IdleDispatch /\ IdleCleanup /\ IdlePreprocess /\ IdleChunk /\ IdleRecorder /\ IdleUpload /\ IdleFile /\ IdleTab
    /\ context \in Contexts
    /\ maxAttempts \in 1..MaxMaxAttempts
    /\ baseDelayMs \in BaseDelays
    /\ attempt = 0
    /\ lastError = [message |-> "undefined"]
    /\ rpc = "idle"
    /\ invocations = 0
    /\ inFlight = 0
    /\ failures = << >>
    /\ delays = << >>
    /\ elapsed = << >>
    /\ retryOutcome = [kind |-> "none"]

\* the head of the loop with attempt = att: call fn() and await it, or leave
\* the loop and throw the terminal error
LoopHead(att, err, pending) ==
    /\ attempt' = att
    /\ IF loopCondition(att, maxAttempts)
       THEN /\ invocations' = invocations + 1
            /\ inFlight' = pending + 1
            /\ rpc' = "calling"
            /\ retryOutcome' = retryOutcome
       ELSE /\ rpc' = "threw"
            /\ retryOutcome' = [kind |-> "error",
                                error |-> terminalError(context, maxAttempts, err)]
            /\ invocations' = invocations
            /\ inFlight' = pending

\* withRetry(fn, ...) is called: lastError = null, attempt = 1
CallWithRetry ==
    /\ rpc = "idle"
    /\ inFlight = 0
    /\ LoopHead(1, lastError, inFlight)
    /\ UNCHANGED <<context, maxAttempts, baseDelayMs, lastError, failures, delays, elapsed>>
    /\ UNCHANGED notRetryVars

\* return await fn()
FnResolve ==
    /\ rpc = "calling"
    /\ rpc' = "returned"
    /\ inFlight' = inFlight - 1
    /\ retryOutcome' = [kind |-> "value", attempt |-> attempt]
    /\ UNCHANGED <<context, maxAttempts, baseDelayMs, attempt, lastError,
                   invocations, failures, delays, elapsed>>
    /\ UNCHANGED notRetryVars

\* catch (error): remember it, then sleep or go round the loop
FnReject(msg) ==
    /\ rpc = "calling"
    /\ lastError' = [message |-> msg]
    /\ failures' = Append(failures, msg)
    /\ IF sleepCondition(attempt, maxAttempts)
       THEN /\ delays' = Append(delays, backoffDelay(baseDelayMs, attempt))
            /\ rpc' = "sleeping"
            /\ inFlight' = inFlight - 1
            /\ UNCHANGED <<attempt, invocations, retryOutcome>>
       ELSE /\ delays' = delays
            /\ LoopHead(attempt + 1, lastError', inFlight - 1)
    /\ UNCHANGED <<context, maxAttempts, baseDelayMs, elapsed>>
    /\ UNCHANGED notRetryVars

\* the setTimeout of the backoff fires: attempt++, back to the loop head
TimerFires ==
    /\ rpc = "sleeping"
    /\ elapsed' = Append(elapsed, delays[Len(delays)])
    /\ LoopHead(attempt + 1, lastError, inFlight)
    /\ UNCHANGED <<context, maxAttempts, baseDelayMs, lastError, failures, delays>>
    /\ UNCHANGED notRetryVars

NextRetry ==
    \/ CallWithRetry
    \/ FnResolve
    \/ \E msg \in ErrorMessages : FnReject(msg)
    \/ TimerFires

SpecRetry == InitRetry /\ [][NextRetry]_vars

----------------------------------------------------------------------------
(* ConcurrencyLimiter *)

\* the limiter's fields together with the bookkeeping of the task closures
Limiter == [running |-> running, queue |-> queue, stage |-> stage,
            startOrder |-> startOrder, calls |-> calls]

\* Math.max(1, Math.floor(settings.concurrencyLimit ?? 6))
configuredLimit(concurrencyLimit) ==
    Max(1, IF concurrencyLimit.set THEN concurrencyLimit.value ELSE DEFAULT_CONCURRENCY)

\* the synchronous prefix of the closure pushed by run(): running++, fn().
\* The openai fn issues the remote call at once; the gemini fn first awaits
\* blobToBase64.
taskStart(L, k) ==
    [L EXCEPT !.running = @ + 1,
              !.stage[k] = IF provider = "gemini" THEN "encoding" ELSE "calling",
              !.calls[k] = IF provider = "gemini" THEN @ ELSE @ + 1,
              !.startOrder = Append(@, k)]

processQueueGuardOffByOne(L) == L.running <= limit /\ Len(L.queue) > 0

processQueueGuard(L) == L.running < limit /\ Len(L.queue) > 0

processQueue(L) ==
    IF processQueueGuard(L)
    THEN taskStart([L EXCEPT !.queue = Tail(@)], Head(L.queue))
    ELSE L

\* run(fn): push the closure, processQueue()
run(L, k) ==
    processQueue([L EXCEPT !.queue = Append(@, k), !.stage[k] = "queued"])

\* chunks.map((chunk, index) => concurrencyLimiter.run(...)), for chunks k..n
RECURSIVE mapRun(_, _, _)
mapRun(L, k, n) ==
    IF k > n THEN L ELSE mapRun(run(L, k), k + 1, n)

taskFinallyWithoutProcessQueue(L, k, st) ==
    [L EXCEPT !.running = @ - 1, !.stage[k] = st]

taskFinallyOnSuccessOnly(L, k, st) ==
    IF st = "rejected" THEN [L EXCEPT !.stage[k] = st]
    ELSE processQueue([L EXCEPT !.running = @ - 1, !.stage[k] = st])

\* finally { this.running--; this.processQueue(); }
taskFinally(L, k, st) ==
    processQueue([L EXCEPT !.running = @ - 1, !.stage[k] = st])

----------------------------------------------------------------------------
(* Transcript assembly *)

compareIndexDescending(a, b) == b.index - a.index

\* results.sort((a, b) => a.index - b.index)
compareIndex(a, b) == a.index - b.index

RECURSIVE insertSorted(_, _)
insertSorted(r, s) ==
    IF s = << >> THEN <<r>>
    ELSE IF compareIndex(r, Head(s)) < 0 THEN <<r>> \o s
         ELSE <<Head(s)>> \o insertSorted(r, Tail(s))

RECURSIVE sortByIndex(_)
sortByIndex(results) ==
    IF results = << >> THEN << >>
    ELSE insertSorted(Head(results), sortByIndex(Tail(results)))

Separator == <<" ">>

\* sortedTranscriptions.map(r => r.text).join(' ')
RECURSIVE joinTexts(_)
joinTexts(results) ==
    IF results = << >> THEN << >>
    ELSE IF Len(results) = 1 THEN results[1].text
         ELSE results[1].text \o Separator \o joinTexts(Tail(results))

\* return { index, text: transcription } / { index, text: response.text || '' }
chunkResult(k) ==
    [index |-> k - 1,
     text |-> IF response[k].defined THEN response[k].text ELSE << >>]

NChunks == Len(response)
Tasks == 1..NChunks

----------------------------------------------------------------------------
(* Chunked transcribe *)

\* settings.provider: the two supported values and an unsupported one
Providers == {"openai", "gemini", "other"}

Responses(p) == IF p = "gemini" THEN {Str(t) : t \in Texts} \cup {Undefined}
                ELSE {Str(t) : t \in Texts}

\* settings.concurrencyLimit: unset, or a number (0 is a possible setting)
ConcurrencyInputs == {[set |-> FALSE, value |-> 0]}
                     \cup {[set |-> TRUE, value |-> v] : v \in 0..MaxLimit}

\* transcribe() after preprocess, with the answers of the remote service
\* drawn from answers[provider]
InitDispatchOver(answers) ==
    /\ IdleRetry /\ IdleCleanup /\ IdlePreprocess /\ IdleChunk /\ IdleRecorder /\ IdleUpload /\ IdleFile /\ IdleTab
    /\ provider \in Providers
    /\ \E c \in ConcurrencyInputs : limit = configuredLimit(c)
    /\ \E n \in 0..MaxChunks : response \in [1..n -> answers[provider]]
    /\ running = 0
    /\ queue = << >>
    /\ stage = [k \in 1..Len(response) |-> "new"]
    /\ startOrder = << >>
    /\ settleOrder = << >>
    /\ calls = [k \in 1..Len(response) |-> 0]
    /\ promise = [k \in 1..Len(response) |-> [state |-> "pending"]]
    /\ allState = [state |-> "pending"]
    /\ tpc = "preprocessed"
    /\ fullText = << >>
    /\ outcome = [kind |-> "none"]

InitDispatch == InitDispatchOver([p \in Providers |-> Responses(p)])

SetLimiter(L) ==
    /\ running' = L.running
    /\ queue' = L.queue
    /\ stage' = L.stage
    /\ startOrder' = L.startOrder
    /\ calls' = L.calls

\* recorder.ts:269-301 / 312-351: build the limiter, map every chunk through
\* run(), then await Promise.all.  An empty array resolves Promise.all at once.
Dispatch ==
    /\ tpc = "preprocessed"
    /\ provider \in {"openai", "gemini"}
    /\ SetLimiter(mapRun(Limiter, 1, NChunks))
    /\ allState' = IF NChunks = 0
                   THEN [state |-> "fulfilled", value |-> << >>]
                   ELSE allState
    /\ tpc' = "awaiting"
    /\ UNCHANGED <<provider, limit, response, settleOrder, promise, fullText, outcome>>
    /\ UNCHANGED notDispVars

\* recorder.ts:361-363: neither provider branch ran
Unsupported ==
    /\ tpc = "preprocessed"
    /\ provider \notin {"openai", "gemini"}
    /\ tpc' = "threw"
    /\ outcome' = [kind |-> "error", error |-> [unsupported |-> provider]]
    /\ UNCHANGED <<provider, limit, response, running, queue, stage, startOrder,
                   settleOrder, calls, promise, allState, fullText>>
    /\ UNCHANGED notDispVars

\* what Promise.allSettled followed by a filter on the fulfilled would give
promiseAllSalvaging(ps) ==
    IF allState.state # "pending" THEN allState
    ELSE IF \A k \in DOMAIN ps : ps[k].state # "pending"
         THEN LET ok == SelectSeq([k \in DOMAIN ps |-> ps[k]],
                                  LAMBDA q : q.state = "fulfilled")
              IN [state |-> "fulfilled", value |-> [k \in DOMAIN ok |-> ok[k].value]]
         ELSE allState

\* Promise.all: rejects with the first rejection, fulfils with the values in
\* the order of the input promises once all are fulfilled
promiseAll(ps) ==
    IF allState.state # "pending" THEN allState
    ELSE IF \E k \in DOMAIN ps : ps[k].state = "rejected"
         THEN LET k == CHOOSE j \in DOMAIN ps : ps[j].state = "rejected"
              IN [state |-> "rejected", reason |-> ps[k].reason]
         ELSE IF \A k \in DOMAIN ps : ps[k].state = "fulfilled"
              THEN [state |-> "fulfilled", value |-> [k \in DOMAIN ps |-> ps[k].value]]
              ELSE allState

Settle(k, p, st) ==
    /\ promise' = [promise EXCEPT ![k] = p]
    /\ allState' = promiseAll([promise EXCEPT ![k] = p])
    /\ SetLimiter(taskFinally(Limiter, k, st))
    /\ settleOrder' = Append(settleOrder, k)
    /\ UNCHANGED <<provider, limit, response, tpc, fullText, outcome>>
    /\ UNCHANGED notDispVars

\* gemini: blobToBase64 resolved, generateContent is issued
EncodeDone(k) ==
    /\ k \in Tasks /\ stage[k] = "encoding"
    /\ stage' = [stage EXCEPT ![k] = "calling"]
    /\ calls' = [calls EXCEPT ![k] = @ + 1]
    /\ UNCHANGED <<provider, limit, response, running, queue, startOrder,
                   settleOrder, promise, allState, tpc, fullText, outcome>>
    /\ UNCHANGED notDispVars

\* gemini: blobToBase64 rejected: catch -> reject(error), finally
EncodeFail(k) ==
    /\ k \in Tasks /\ stage[k] = "encoding"
    /\ Settle(k, [state |-> "rejected", reason |-> [chunk |-> k, at |-> "encode"]], "rejected")

\* the remote call answered: resolve(result), finally
CallDone(k) ==
    /\ k \in Tasks /\ stage[k] = "calling"
    /\ Settle(k, [state |-> "fulfilled", value |-> chunkResult(k)], "resolved")

\* the remote call failed: catch -> reject(error), finally
CallFail(k) ==
    /\ k \in Tasks /\ stage[k] = "calling"
    /\ Settle(k, [state |-> "rejected", reason |-> [chunk |-> k, at |-> "call"]], "rejected")

\* the await of Promise.all resumes: throw, or sort, join, clean up and return
Resume ==
    /\ tpc = "awaiting"
    /\ allState.state # "pending"
    /\ IF allState.state = "rejected"
       THEN /\ tpc' = "threw"
            /\ outcome' = [kind |-> "error", error |-> allState.reason]
            /\ fullText' = fullText
       ELSE /\ tpc' = "returned"
            /\ fullText' = joinTexts(sortByIndex(allState.value))
            /\ outcome' = [kind |-> "text",
                           text |-> cleanupRepetitiveCharacters(fullText', DEFAULT_MAX_REPEATS)]
    /\ UNCHANGED <<provider, limit, response, running, queue, stage, startOrder,
                   settleOrder, calls, promise, allState>>
    /\ UNCHANGED notDispVars

NextDispatch ==
    \/ Dispatch
    \/ Unsupported
    \/ \E k \in 1..MaxChunks : EncodeDone(k)
    \/ \E k \in 1..MaxChunks : EncodeFail(k)
    \/ \E k \in 1..MaxChunks : CallDone(k)
    \/ \E k \in 1..MaxChunks : CallFail(k)
    \/ Resume

SpecDispatch == InitDispatch /\ [][NextDispatch]_vars

\* every started task eventually settles: the remote service and the encoder
\* always answer
\* The scheduling of the limiter does not depend on the texts, so one answer
\* per chunk is enough here.
SameAnswer == [p \in Providers |-> {Str(<<"a">>)}]

InitFairDispatch == InitDispatchOver(SameAnswer)

FairSpecDispatch ==
    /\ InitFairDispatch
    /\ [][NextDispatch]_vars
    /\ WF_vars(Dispatch)
    /\ \A k \in 1..MaxChunks :
          /\ WF_vars(EncodeDone(k) \/ EncodeFail(k))
          /\ WF_vars(CallDone(k) \/ CallFail(k))

\* all sequences over S of length at most n
SeqsUpTo(S, n) == UNION {[1..m -> S] : m \in 0..n}

Repeat(c, n) == [j \in 1..n |-> c]

\* texts with a run around the default threshold
LongRunTexts ==
    UNION {{pre \o Repeat(c, n) \o post :
               n \in (DEFAULT_MAX_REPEATS - 1)..(DEFAULT_MAX_REPEATS + 2),
               pre \in SeqsUpTo(Chars \ {c}, 1),
               post \in SeqsUpTo(Chars \ {c}, 1)} : c \in Chars}

InitCleanup ==
    /\ IdleDispatch /\ IdleRetry /\ IdlePreprocess /\ IdleChunk /\ IdleRecorder /\ IdleUpload /\ IdleFile /\ IdleTab
    /\ \/ inputText \in SeqsUpTo(Chars, MaxTextLen) /\ inputMaxRepeats \in 1..MaxMaxRepeats
       \/ inputText \in LongRunTexts /\ inputMaxRepeats = DEFAULT_MAX_REPEATS
    /\ cleanedText = << >>
    /\ cpc = "input"

Cleanup ==
    /\ cpc = "input"
    /\ cleanedText' = cleanupRepetitiveCharacters(inputText, inputMaxRepeats)
    /\ cpc' = "cleaned"
    /\ UNCHANGED <<inputText, inputMaxRepeats>>
    /\ UNCHANGED notCleanVars

NextCleanup == Cleanup

SpecCleanup == InitCleanup /\ [][NextCleanup]_vars

----------------------------------------------------------------------------
(* TranscriberService.preprocess: silence processing.  Samples are held in  *)
(* thousandths of the [-1, 1] scale.                                        *)

TARGET_SAMPLE_RATE == ScaledSampleRate
SILENCE_THRESHOLD == 10
MIN_SILENCE_DURATION_SECONDS == 2
\* Math.floor of a product of integers
MIN_SILENCE_TRIM_SAMPLES == MIN_SILENCE_DURATION_SECONDS * TARGET_SAMPLE_RATE
REPLACEMENT_AS_LONG_AS_THRESHOLD == MIN_SILENCE_DURATION_SECONDS
REPLACEMENT_SILENCE_DURATION == 1

Abs(x) == IF x < 0 THEN -x ELSE x

\* new Float32Array(n): all zeros
Float32Array(n) == [j \in 1..n |-> 0]

generateSilence(sampleRate, durationSeconds) ==
    Float32Array(sampleRate * durationSeconds)

replacementSilence == generateSilence(TARGET_SAMPLE_RATE, REPLACEMENT_SILENCE_DURATION)

\* Math.abs(rawData[i]) <= SILENCE_THRESHOLD
isSilent(sample) == Abs(sample) <= SILENCE_THRESHOLD

isLongSilenceStrict(count) == count > MIN_SILENCE_TRIM_SAMPLES

\* currentSilentCount >= MIN_SILENCE_TRIM_SAMPLES
isLongSilence(count) == count >= MIN_SILENCE_TRIM_SAMPLES

\* first pass, loop at index i (0-based in the program, i + 1 here)
RECURSIVE firstPass(_, _, _, _)
firstPass(raw, i, currentSilentCount, len) ==
    IF ~(i < Len(raw)) THEN [currentSilentCount |-> currentSilentCount, len |-> len]
    ELSE IF isSilent(raw[i + 1])
         THEN firstPass(raw, i + 1, currentSilentCount + 1, len)
         ELSE firstPass(raw, i + 1, 0,
                        (IF isLongSilence(currentSilentCount)
                         THEN len + Len(replacementSilence)
                         ELSE len + currentSilentCount) + 1)

computeProcessedLengthWithoutTrailing(raw) == firstPass(raw, 0, 0, 0).len

\* "Calculate processed data length", trailing silence included
computeProcessedLength(raw) ==
    LET e == firstPass(raw, 0, 0, 0)
    IN  IF isLongSilence(e.currentSilentCount)
        THEN e.len + Len(replacementSilence)
        ELSE e.len + e.currentSilentCount

\* data[writeIndex++] = v: a write past the end of a typed array is dropped
write(out, v) ==
    [data |-> IF out.writeIndex < Len(out.data)
              THEN [out.data EXCEPT ![out.writeIndex + 1] = v]
              ELSE out.data,
     writeIndex |-> out.writeIndex + 1]

\* for (let j = from; j < to; j++) data[writeIndex++] = src[j]
RECURSIVE writeRange(_, _, _, _)
writeRange(out, src, from, to) ==
    IF ~(from < to) THEN out
    ELSE writeRange(write(out, src[from + 1]), src, from + 1, to)

\* the silent run that ends before index i: replaced, or copied
writeSilence(out, raw, i, currentSilentCount) ==
    IF isLongSilence(currentSilentCount)
    THEN writeRange(out, replacementSilence, 0, Len(replacementSilence))
    ELSE writeRange(out, raw, i - currentSilentCount, i)

\* second pass, loop at index i
RECURSIVE secondPass(_, _, _, _)
secondPass(raw, i, currentSilentCount, out) ==
    IF ~(i < Len(raw)) THEN writeSilence(out, raw, i, currentSilentCount)
    ELSE IF isSilent(raw[i + 1])
         THEN secondPass(raw, i + 1, currentSilentCount + 1, out)
         ELSE secondPass(raw, i + 1, 0,
                         write(writeSilence(out, raw, i, currentSilentCount), raw[i + 1]))

\* recorder.ts:438-508
silenceProcess(raw) ==
    LET len == computeProcessedLength(raw)
    IN  [processedLength |-> len,
         out |-> secondPass(raw, 0, 0, [data |-> Float32Array(len), writeIndex |-> 0])]

SampleValues == {0, 10, -500}

InitSilence ==
    /\ IdleDispatch /\ IdleRetry /\ IdleCleanup /\ IdleChunk /\ IdleRecorder /\ IdleUpload /\ IdleFile /\ IdleTab
    /\ rawData \in SeqsUpTo(SampleValues, MaxBufLen)
    /\ processedLength = 0
    /\ data = << >>
    /\ writeIndex = 0
    /\ renormalized = << >>
    /\ spc = "resampled"

\* the silence processing of preprocess on the resampled buffer
SilenceProcess ==
    /\ spc = "resampled"
    /\ LET r == silenceProcess(rawData)
       IN /\ processedLength' = r.processedLength
          /\ data' = r.out.data
          /\ writeIndex' = r.out.writeIndex
    /\ spc' = "normalized"
    /\ UNCHANGED <<rawData, renormalized>>
    /\ UNCHANGED notSilenceVars

\* the processed audio is preprocessed once more
SilenceProcessAgain ==
    /\ spc = "normalized"
    /\ renormalized' = silenceProcess(data).out.data
    /\ spc' = "renormalized"
    /\ UNCHANGED <<rawData, processedLength, data, writeIndex>>
    /\ UNCHANGED notSilenceVars

NextSilence ==
    \/ SilenceProcess
    \/ SilenceProcessAgain

SpecSilence == InitSilence /\ [][NextSilence]_vars


----------------------------------------------------------------------------
(* TranscriberService.preprocess: time-based chunking with overlap.  A      *)
(* chunk is kept with its sample range [chunkStartSample, endSample), the   *)
(* start of its stride and its index.                                       *)

DEFAULT_MAX_CHUNK_SECONDS == 300
OVERLAP_SECONDS == 2
MIN_CHUNK_DURATION_SECONDS == 2

\* const MAX_CHUNK_SECONDS = maxSecsInput ?? 300
MAX_CHUNK_SECONDS(input) == IF input.set THEN input.value ELSE DEFAULT_MAX_CHUNK_SECONDS

OVERLAP_SAMPLES == OVERLAP_SECONDS * TARGET_SAMPLE_RATE
MIN_CHUNK_SAMPLES == MIN_CHUNK_DURATION_SECONDS * TARGET_SAMPLE_RATE

\* const maxSamples = MAX_CHUNK_SECONDS * TARGET_SAMPLE_RATE
maxSamplesOf(input) == MAX_CHUNK_SECONDS(input) * TARGET_SAMPLE_RATE

chunkStartWithoutOverlap(startSample, chunkIndex) == startSample

\* chunkStartSample: the stride start, pulled back by the overlap for every
\* chunk after the first
chunkStart(startSample, chunkIndex) ==
    IF chunkIndex > 0 THEN Max(0, startSample - OVERLAP_SAMPLES) ELSE startSample

meetsMinimumStrict(segmentSamples) == segmentSamples > MIN_CHUNK_SAMPLES

meetsMinimumNonEmpty(segmentSamples) == segmentSamples >= 1

\* if (segmentSamples >= MIN_CHUNK_SAMPLES)
meetsMinimum(segmentSamples) == segmentSamples >= MIN_CHUNK_SAMPLES

\* while (startSample < totalSamples) { ... startSample = endSample }
RECURSIVE chunkLoop(_, _, _, _)
chunkLoop(total, maxSamples, startSample, acc) ==
    IF ~(startSample < total) THEN acc
    ELSE LET endSample == Min(startSample + maxSamples, total)
             chunkIndex == Len(acc)
             chunkStartSample == chunkStart(startSample, chunkIndex)
             segmentSamples == endSample - chunkStartSample
         IN chunkLoop(total, maxSamples, endSample,
                      IF meetsMinimum(segmentSamples)
                      THEN Append(acc, [chunkStartSample |-> chunkStartSample,
                                        endSample |-> endSample,
                                        startSample |-> startSample,
                                        index |-> chunkIndex])
                      ELSE acc)

\* maxSecsInput: left out by transcribe(), or a number of seconds
MaxSecsInputs == {[set |-> FALSE, value |-> 0]}
                 \cup {[set |-> TRUE, value |-> v] : v \in 1..MaxMaxSecs}

InitChunk ==
    /\ IdleDispatch /\ IdleRetry /\ IdleCleanup /\ IdlePreprocess /\ IdleRecorder /\ IdleUpload /\ IdleFile /\ IdleTab
    /\ totalSamples \in 0..MaxTotalSamples
    /\ maxSecsInput \in MaxSecsInputs
    /\ chunks = << >>
    /\ kpc = "normalized"

\* recorder.ts:510-552
Chunking ==
    /\ kpc = "normalized"
    /\ chunks' = chunkLoop(totalSamples, maxSamplesOf(maxSecsInput), 0, << >>)
    /\ kpc' = "chunked"
    /\ UNCHANGED <<totalSamples, maxSecsInput>>
    /\ UNCHANGED notChunkVars

NextChunk == Chunking

SpecChunk == InitChunk /\ [][NextChunk]_vars

----------------------------------------------------------------------------
(* RecorderService.  Times are in ms, so getElapsed is in thousandths of    *)
(* the seconds the code returns.  A synchronous run of code is one action;  *)
(* the continuation of an await on a settled promise is a microtask and     *)
(* runs before any other call, timer or event.  Web Audio is supported.     *)

timingVars == <<startTime, pauseTime, totalPausedTime, finalElapsed>>
resourceVars == <<stream, audioContext, sourceNode, analyserNode>>
releaseVars == <<trackStops, disconnects, closeCalls>>

\* this.mediaRecorder?.state
recorderState == IF mediaRecorder = 0 THEN "null" ELSE recorders[mediaRecorder].state

getElapsed ==
    IF finalElapsed # << >> THEN finalElapsed[1]
    ELSE IF startTime = 0 THEN 0
    ELSE IF recorderState = "paused" THEN pauseTime - startTime - totalPausedTime
    ELSE now - startTime - totalPausedTime

stopNeverReturnsEarly(sp) == FALSE

\* if (!this.stopPromise) return { blob: new Blob(), duration: 0, size: 0 }
stopReturnsEarly(sp) == sp = 0

\* an awaited promise that lets the awaiting call continue (await of
\* undefined continues at once)
settled(q) == q = 0 \/ promises[q].state = "resolved"

Microtask(i) == stops[i].pc = "awaitPromise" /\ settled(stops[i].awaits)
NoMicrotask == \A i \in 1..MaxStops : ~Microtask(i)

Lowest(S) == CHOOSE x \in S : \A y \in S : x <= y

FreePromises == {q \in 1..MaxRecordings : promises[q].state = "none"}
FreeRecorders == {o \in 1..MaxRecordings : recorders[o].state = "none"}
IdleStops == {i \in 1..MaxStops : stops[i].pc = "idle"}

NoReturn == [kind |-> "none", duration |-> 0, blobs |-> 0, frozen |-> 0]

\* start() from `this.recordedChunks = []` on, for this.mediaRecorder = obj;
\* MediaRecorder.start() throws InvalidStateError unless the state is inactive
StartBody(obj, recs) ==
    /\ recordedChunks' = 0
    /\ totalPausedTime' = 0
    /\ startTime' = now
    /\ IF recs[obj].state # "inactive"
       THEN /\ recorders' = recs
            /\ UNCHANGED <<promises, stopPromise>>
       ELSE /\ FreePromises # {}
            /\ LET q == Lowest(FreePromises)
               IN /\ recorders' = [recs EXCEPT ![obj] = [state |-> "recording", onstop |-> q]]
                  /\ promises' = [promises EXCEPT ![q].state = "pending"]
                  /\ stopPromise' = q
    /\ recordingMs' = 0

\* start(): up to `await this.init()`, or to its end when a recorder exists
RecStart ==
    /\ NoMicrotask
    /\ startPc = "idle"
    /\ returned' = NoReturn
    /\ IF mediaRecorder = 0
       THEN /\ startPc' = "init"
            /\ UNCHANGED <<recordedChunks, totalPausedTime, startTime, recorders,
                           promises, stopPromise, recordingMs>>
       ELSE /\ StartBody(mediaRecorder, recorders)
            /\ startPc' = "idle"
    /\ UNCHANGED <<now, mediaRecorder, pauseTime, finalElapsed, eventQueue, fixing,
                   resourceVars, stops, releaseVars>>
    /\ UNCHANGED notRecVars

\* getUserMedia resolves: the rest of init(), then the rest of start()
RecInitDone ==
    /\ NoMicrotask
    /\ startPc = "init"
    /\ FreeRecorders # {}
    /\ LET o == Lowest(FreeRecorders)
       IN /\ mediaRecorder' = o
          /\ StartBody(o, [recorders EXCEPT ![o].state = "inactive"])
    /\ stream' = "live"
    /\ audioContext' = "running"
    /\ sourceNode' = "connected"
    /\ analyserNode' = "created"
    /\ trackStops' = 0 /\ disconnects' = 0 /\ closeCalls' = 0
    /\ startPc' = "idle"
    /\ UNCHANGED <<now, pauseTime, finalElapsed, eventQueue, fixing, stops, returned>>
    /\ UNCHANGED notRecVars

\* getUserMedia rejects: start() throws
RecInitFail ==
    /\ NoMicrotask
    /\ startPc = "init"
    /\ startPc' = "idle"
    /\ UNCHANGED <<now, mediaRecorder, recorders, recordedChunks, timingVars, stopPromise,
                   promises, eventQueue, fixing, resourceVars, stops, releaseVars,
                   recordingMs, returned>>
    /\ UNCHANGED notRecVars

pauseAppliesWhenPaused(state) == state \in {"recording", "paused"}

\* if (this.mediaRecorder && this.mediaRecorder.state === 'recording')
pauseApplies(state) == state = "recording"

\* if (this.mediaRecorder && this.mediaRecorder.state === 'paused')
resumeApplies(state) == state = "paused"

RecPause ==
    /\ NoMicrotask
    /\ IF pauseApplies(recorderState)
       THEN /\ recorders' = [recorders EXCEPT ![mediaRecorder].state = "paused"]
            /\ pauseTime' = now
       ELSE UNCHANGED <<recorders, pauseTime>>
    /\ UNCHANGED <<now, mediaRecorder, recordedChunks, startTime, totalPausedTime,
                   finalElapsed, stopPromise, promises, eventQueue, fixing, resourceVars,
                   startPc, stops, releaseVars, recordingMs, returned>>
    /\ UNCHANGED notRecVars

RecResume ==
    /\ NoMicrotask
    /\ IF resumeApplies(recorderState)
       THEN /\ recorders' = [recorders EXCEPT ![mediaRecorder].state = "recording"]
            /\ totalPausedTime' = totalPausedTime + (now - pauseTime)
       ELSE UNCHANGED <<recorders, totalPausedTime>>
    /\ UNCHANGED <<now, mediaRecorder, recordedChunks, startTime, pauseTime,
                   finalElapsed, stopPromise, promises, eventQueue, fixing, resourceVars,
                   startPc, stops, releaseVars, recordingMs, returned>>
    /\ UNCHANGED notRecVars

\* stop(): up to `await this.stopPromise`
RecStop ==
    /\ NoMicrotask
    /\ IF stopReturnsEarly(stopPromise)
       THEN /\ returned' = [kind |-> "early", duration |-> 0, blobs |-> 0, frozen |-> 0]
            /\ UNCHANGED <<finalElapsed, recorders, eventQueue, stops>>
       ELSE /\ trackStops < MaxReleases
            /\ IdleStops # {}
            /\ finalElapsed' = <<getElapsed>>
            /\ IF recorderState \notin {"null", "inactive"}
               THEN /\ recorders' = [recorders EXCEPT ![mediaRecorder].state = "inactive"]
                    /\ eventQueue' = Append(eventQueue, mediaRecorder)
               ELSE UNCHANGED <<recorders, eventQueue>>
            /\ stops' = [stops EXCEPT ![Lowest(IdleStops)] =
                             [pc |-> "awaitPromise", awaits |-> stopPromise,
                              frozen |-> getElapsed]]
            /\ UNCHANGED returned
    /\ UNCHANGED <<now, mediaRecorder, recordedChunks, startTime, pauseTime, totalPausedTime,
                   stopPromise, promises, fixing, resourceVars, startPc, releaseVars,
                   recordingMs>>
    /\ UNCHANGED notRecVars

\* the stop event of a MediaRecorder: ondataavailable with the recorded
\* data (not empty), then onstop up to `await fixWebmDuration`
RecStopEvent ==
    /\ NoMicrotask
    /\ eventQueue # << >>
    /\ LET o == Head(eventQueue)
           pushed == recordedChunks + 1
       IN /\ recordedChunks' = pushed
          /\ fixing' = IF recorders[o].onstop # 0
                       THEN fixing \cup {[promise |-> recorders[o].onstop,
                                          durationMs |-> now - startTime - totalPausedTime,
                                          blobs |-> pushed]}
                       ELSE fixing
    /\ eventQueue' = Tail(eventQueue)
    /\ UNCHANGED <<now, mediaRecorder, recorders, timingVars, stopPromise, promises,
                   resourceVars, startPc, stops, releaseVars, recordingMs, returned>>
    /\ UNCHANGED notRecVars

\* fixWebmDuration settles (fixed blob, or the raw blob on failure):
\* resolve({ blob, duration, size })
RecFixSettled ==
    /\ NoMicrotask
    /\ \E handler \in fixing :
        /\ fixing' = fixing \ {handler}
        /\ promises' = IF promises[handler.promise].state = "pending"
                       THEN [promises EXCEPT ![handler.promise] =
                                [state |-> "resolved", duration |-> handler.durationMs,
                                 blobs |-> handler.blobs]]
                       ELSE promises
    /\ UNCHANGED <<now, mediaRecorder, recorders, recordedChunks, timingVars, stopPromise,
                   eventQueue, resourceVars, startPc, stops, releaseVars, recordingMs,
                   returned>>
    /\ UNCHANGED notRecVars

\* the result the call in slot i returns
resultOf(i) ==
    LET q == stops[i].awaits
    IN [kind |-> "result",
        duration |-> IF q = 0 THEN 0 ELSE promises[q].duration,
        blobs |-> IF q = 0 THEN 0 ELSE promises[q].blobs,
        frozen |-> stops[i].frozen]

\* Objects that nothing references any more are garbage: a MediaRecorder the
\* service has dropped and that has no event queued, a settled promise that
\* no call awaits.  They keep their identity and lose their content.
Queued(o) == \E k \in 1..Len(eventQueue) : eventQueue[k] = o
AwaitedByOther(i) == \E j \in 1..MaxStops : j # i /\ stops[j].awaits = stops[i].awaits
Collected == [state |-> "collected", onstop |-> 0]
Forgotten == [state |-> "resolved", duration |-> 0, blobs |-> 0]

\* stop(): "Reset recorder and stream for next recording" to the return
ResetAfterStop(i) ==
    /\ mediaRecorder' = 0
    /\ stream' = "null"
    /\ startTime' = 0
    /\ pauseTime' = 0
    /\ totalPausedTime' = 0
    /\ finalElapsed' = << >>
    /\ stopPromise' = 0
    /\ stops' = [stops EXCEPT ![i] = [pc |-> "idle", awaits |-> 0, frozen |-> 0]]
    /\ returned' = resultOf(i)
    /\ recorders' = IF mediaRecorder # 0 /\ ~Queued(mediaRecorder)
                    THEN [recorders EXCEPT ![mediaRecorder] = Collected]
                    ELSE recorders
    /\ promises' = IF stops[i].awaits # 0 /\ ~AwaitedByOther(i)
                   THEN [promises EXCEPT ![stops[i].awaits] = Forgotten]
                   ELSE promises

\* stop(): from the result of `await this.stopPromise` to
\* `await this.audioContext.close()`, or to the return when there is nothing
\* to close.  A context that is being closed reads as 'closed' or still as
\* 'running'; close() on it rejects with InvalidStateError.
RecStopAfterResult ==
    /\ \E i \in 1..MaxStops : Microtask(i)
    /\ LET i == Lowest({j \in 1..MaxStops : Microtask(j)})
           stopped == IF stream # "null" THEN "ended" ELSE "null"
       IN /\ trackStops' = IF stream # "null" THEN trackStops + 1 ELSE trackStops
          /\ disconnects' = IF sourceNode # "null" THEN disconnects + 1 ELSE disconnects
          /\ sourceNode' = "null"
          /\ analyserNode' = "null"
          /\ \/ /\ audioContext = "null" \/ audioContext = "closing"
                /\ ResetAfterStop(i)
                /\ UNCHANGED <<audioContext, closeCalls>>
             \/ /\ audioContext = "running"
                /\ closeCalls' = closeCalls + 1
                /\ audioContext' = "closing"
                /\ stream' = stopped
                /\ stops' = [stops EXCEPT ![i].pc = "awaitClose"]
                /\ UNCHANGED <<mediaRecorder, recorders, promises, timingVars, stopPromise,
                               returned>>
             \/ /\ audioContext = "closing"
                /\ closeCalls' = closeCalls + 1
                /\ stream' = stopped
                /\ stops' = [stops EXCEPT ![i] = [pc |-> "idle", awaits |-> 0, frozen |-> 0]]
                /\ returned' = [kind |-> "threw", duration |-> 0, blobs |-> 0, frozen |-> 0]
                /\ UNCHANGED <<mediaRecorder, recorders, promises, timingVars, stopPromise,
                               audioContext>>
    /\ UNCHANGED <<now, recordedChunks, eventQueue, fixing, startPc, recordingMs>>
    /\ UNCHANGED notRecVars

\* audioContext.close() resolves: `this.audioContext = null` and the reset
RecCloseDone ==
    /\ NoMicrotask
    /\ \E i \in 1..MaxStops :
        /\ stops[i].pc = "awaitClose"
        /\ ResetAfterStop(i)
    /\ audioContext' = "null"
    /\ UNCHANGED <<now, recordedChunks, eventQueue, fixing, sourceNode, analyserNode,
                   startPc, releaseVars, recordingMs>>
    /\ UNCHANGED notRecVars

\* time passes
RecTick ==
    /\ NoMicrotask
    /\ now < MaxTime
    /\ now' = now + 1
    /\ recordingMs' = IF recorderState = "recording" THEN recordingMs + 1 ELSE recordingMs
    /\ UNCHANGED <<mediaRecorder, recorders, recordedChunks, timingVars, stopPromise, promises,
                   eventQueue, fixing, resourceVars, startPc, stops, releaseVars, returned>>
    /\ UNCHANGED notRecVars

InitRecorder ==
    /\ IdleDispatch /\ IdleRetry /\ IdleCleanup /\ IdlePreprocess /\ IdleChunk /\ IdleUpload /\ IdleTab
    /\ IdleFile
    /\ IdleRecorder

NextRecorder ==
    \/ RecStart
    \/ RecInitDone
    \/ RecInitFail
    \/ RecPause
    \/ RecResume
    \/ RecStop
    \/ RecStopEvent
    \/ RecFixSettled
    \/ RecStopAfterResult
    \/ RecCloseDone
    \/ RecTick

SpecRecorder == InitRecorder /\ [][NextRecorder]_vars

----------------------------------------------------------------------------
(* The upload-based TranscriberService.transcribe: preprocess, upload with   *)
(* retry, generateContent with retry, delete of the uploaded file, cleanup.  *)

RETRY_DELAY_MS == 1000

\* what generateContent answers (response.text || ''): nothing, a short text,
\* a text with a run longer than the default threshold
UploadResponses == {<< >>, <<"a", "b">>, Repeat("a", DEFAULT_MAX_REPEATS + 2)}

NoError == [kind |-> "none", cause |-> "none"]

onDeleteErrorRethrown == "thrown"

\* try { await genai.files.delete(...) } catch { /* Ignore cleanup errors */ }
onDeleteError == "ignored"

InitUpload ==
    /\ IdleDispatch /\ IdleRetry /\ IdleCleanup /\ IdlePreprocess /\ IdleChunk /\ IdleRecorder /\ IdleFile /\ IdleTab
    /\ upSettings \in [apiKey : BOOLEAN, model : BOOLEAN]
    /\ upc = "called"
    /\ upWait = "none"
    /\ upAttempt = 0
    /\ upDelay = 0
    /\ upLastError = "none"
    /\ preprocessCalls = 0
    /\ uploads = 0
    /\ generates = 0
    /\ deletes = 0
    /\ deleteOutcome = "none"
    /\ upFullText = << >>
    /\ upResult = Undefined
    /\ upError = NoError

\* transcribe(): the check of settings.apiKey, then `await this.preprocess(blob)`
UpTranscribe ==
    /\ upc = "called"
    /\ IF ~upSettings.apiKey
       THEN /\ upc' = "failed"
            /\ upError' = [kind |-> "config", cause |-> "Transcriber API key is not configured"]
            /\ UNCHANGED preprocessCalls
       ELSE /\ upc' = "preprocessing"
            /\ preprocessCalls' = preprocessCalls + 1
            /\ UNCHANGED upError
    /\ UNCHANGED <<upSettings, upWait, upAttempt, upDelay, upLastError, uploads, generates,
                   deletes, deleteOutcome, upFullText, upResult>>
    /\ UNCHANGED notUpVars

\* preprocess resolves: withRetry(upload) starts, attempt 1
UpPreprocessDone ==
    /\ upc = "preprocessing"
    /\ upc' = "upload"
    /\ upWait' = "call"
    /\ upAttempt' = 1
    /\ uploads' = uploads + 1
    /\ UNCHANGED <<upSettings, upDelay, upLastError, preprocessCalls, generates, deletes,
                   deleteOutcome, upFullText, upResult, upError>>
    /\ UNCHANGED notUpVars

\* preprocess rejects (decode failure, no Web Audio): transcribe() throws
UpPreprocessFail ==
    /\ upc = "preprocessing"
    /\ upc' = "failed"
    /\ upError' = [kind |-> "preprocess", cause |-> "decode"]
    /\ UNCHANGED <<upSettings, upWait, upAttempt, upDelay, upLastError, preprocessCalls,
                   uploads, generates, deletes, deleteOutcome, upFullText, upResult>>
    /\ UNCHANGED notUpVars

\* withRetry: the head of the for loop with attempt = att, for the call of
\* phase upc
UpLoopHead(att) ==
    /\ upAttempt' = att
    /\ IF loopCondition(att, MAX_ATTEMPTS)
       THEN /\ upWait' = "call"
            /\ uploads' = IF upc = "upload" THEN uploads + 1 ELSE uploads
            /\ generates' = IF upc = "generate" THEN generates + 1 ELSE generates
            /\ UNCHANGED <<upc, upError>>
       ELSE /\ upWait' = "none"
            /\ upc' = "failed"
            /\ upError' = [kind |-> "retry",
                           cause |-> terminalError("Transcription", MAX_ATTEMPTS,
                                                   [message |-> upLastError']).cause]
            /\ UNCHANGED <<uploads, generates>>

\* the awaited call resolves: upload -> withRetry(generateContent);
\* generateContent -> fullText and the delete call
UpCallResolve ==
    /\ upc \in {"upload", "generate"}
    /\ upWait = "call"
    /\ IF upc = "upload"
       THEN /\ upc' = "generate"
            /\ upAttempt' = 1
            /\ generates' = generates + 1
            /\ UNCHANGED <<upWait, deletes, upFullText>>
       ELSE /\ \E text \in UploadResponses : upFullText' = text
            /\ upc' = "delete"
            /\ upWait' = "none"
            /\ deletes' = deletes + 1
            /\ UNCHANGED <<upAttempt, generates>>
    /\ UNCHANGED <<upSettings, upDelay, upLastError, preprocessCalls, uploads, deleteOutcome,
                   upResult, upError>>
    /\ UNCHANGED notUpVars

\* the awaited call rejects: catch, then the backoff timer or the next
\* round of the loop
UpCallReject(msg) ==
    /\ upc \in {"upload", "generate"}
    /\ upWait = "call"
    /\ upLastError' = msg
    /\ IF sleepCondition(upAttempt, MAX_ATTEMPTS)
       THEN /\ upWait' = "timer"
            /\ upDelay' = backoffDelay(RETRY_DELAY_MS, upAttempt)
            /\ UNCHANGED <<upc, upAttempt, uploads, generates, upError>>
       ELSE /\ UpLoopHead(upAttempt + 1)
            /\ UNCHANGED upDelay
    /\ UNCHANGED <<upSettings, preprocessCalls, deletes, deleteOutcome, upFullText, upResult>>
    /\ UNCHANGED notUpVars

\* the backoff timer fires: attempt++
UpTimerFires ==
    /\ upWait = "timer"
    /\ UpLoopHead(upAttempt + 1)
    /\ UNCHANGED <<upSettings, upDelay, upLastError, preprocessCalls, deletes, deleteOutcome,
                   upFullText, upResult>>
    /\ UNCHANGED notUpVars

\* genai.files.delete settles; then cleanupRepetitiveCharacters and return
UpDeleteSettled(ok) ==
    /\ upc = "delete"
    /\ deleteOutcome' = IF ok THEN "deleted" ELSE "failed"
    /\ IF ~ok /\ onDeleteError # "ignored"
       THEN /\ upc' = "failed"
            /\ upError' = [kind |-> "delete", cause |-> "delete"]
            /\ UNCHANGED upResult
       ELSE /\ upc' = "returned"
            /\ upResult' = Str(cleanupRepetitiveCharacters(upFullText, DEFAULT_MAX_REPEATS))
            /\ UNCHANGED upError
    /\ UNCHANGED <<upSettings, upWait, upAttempt, upDelay, upLastError, preprocessCalls,
                   uploads, generates, deletes, upFullText>>
    /\ UNCHANGED notUpVars

NextUpload ==
    \/ UpTranscribe
    \/ UpPreprocessDone
    \/ UpPreprocessFail
    \/ UpCallResolve
    \/ \E msg \in ErrorMessages : UpCallReject(msg)
    \/ UpTimerFires
    \/ \E ok \in BOOLEAN : UpDeleteSettled(ok)

SpecUpload == InitUpload /\ [][NextUpload]_vars

----------------------------------------------------------------------------
(* FileService.saveTextWithName, in the vault root (dir = '').  A path is   *)
(* the string the code builds, as a sequence of characters.                 *)

FileNames == {<<"a", ".", "m">>, <<"a", "_", "2", ".", "m">>}

Digits == <<"1", "2", "3", "4", "5", "6", "7", "8", "9">>

\* fileName.lastIndexOf('.'), 1-based; 0 when there is no dot
RECURSIVE lastIndexOfDot(_, _)
lastIndexOfDot(fileName, i) ==
    IF i = 0 THEN 0
    ELSE IF fileName[i] = "." THEN i
    ELSE lastIndexOfDot(fileName, i - 1)

\* `${nameWithoutExt}_${counter}${ext}`; lastDotIndex > 0 in the code is
\* a dot after the first character
suffixed(fileName, counter) ==
    LET dot == lastIndexOfDot(fileName, Len(fileName))
        nameWithoutExt == IF dot > 1 THEN SubSeq(fileName, 1, dot - 1) ELSE fileName
        ext == IF dot > 1 THEN SubSeq(fileName, dot, Len(fileName)) ELSE << >>
    IN nameWithoutExt \o <<"_", Digits[counter]>> \o ext

Paths == FileNames \cup {suffixed(f, c) : f \in FileNames, c \in 2..(MaxCounter + 1)}

\* this.app.vault.getAbstractFileByPath(path)
getAbstractFileByPath(v, path) == v[path]

\* do { ... counter++ } while (getAbstractFileByPath(newPath))
RECURSIVE firstFreeCounter(_, _, _)
firstFreeCounter(v, fileName, counter) ==
    IF getAbstractFileByPath(v, suffixed(fileName, counter)).defined
    THEN firstFreeCounter(v, fileName, counter + 1)
    ELSE counter

getUniqueFilePath(v, fileName) ==
    IF ~getAbstractFileByPath(v, fileName).defined
    THEN fileName
    ELSE suffixed(fileName, firstFreeCounter(v, fileName, 2))

\* this.app.vault.modify(existingFile, text)
modify(v, path, text) == [v EXCEPT ![path] = Str(text)]

\* this.app.vault.create(path, text), on a path that does not exist
create(v, path, text) == [v EXCEPT ![path] = Str(text)]

InitFile ==
    /\ IdleDispatch /\ IdleRetry /\ IdleCleanup /\ IdlePreprocess /\ IdleChunk /\ IdleUpload /\ IdleTab
    /\ IdleRecorder
    /\ variant \in {"services/file.ts", "part_001"}
    /\ vault = [path \in Paths |-> Undefined]
    /\ saved = [path |-> << >>, text |-> << >>]

\* src/services/file.ts: vault.modify on an existing file, else vault.create
SaveTextWithName(text, fileName) ==
    /\ variant = "services/file.ts"
    /\ vault' = IF getAbstractFileByPath(vault, fileName).defined
                THEN modify(vault, fileName, text)
                ELSE create(vault, fileName, text)
    /\ saved' = [path |-> fileName, text |-> text]
    /\ UNCHANGED variant
    /\ UNCHANGED notFileVars

\* part_001: vault.create on the path of getUniqueFilePath
SaveTextWithUniqueName(text, fileName) ==
    /\ variant = "part_001"
    /\ \E c \in 2..MaxCounter :
          ~getAbstractFileByPath(vault, fileName).defined
          \/ ~getAbstractFileByPath(vault, suffixed(fileName, c)).defined
    /\ LET path == getUniqueFilePath(vault, fileName)
       IN /\ vault' = create(vault, path, text)
          /\ saved' = [path |-> path, text |-> text]
    /\ UNCHANGED variant
    /\ UNCHANGED notFileVars

NextFile ==
    \/ \E text \in Texts, fileName \in FileNames : SaveTextWithName(text, fileName)
    \/ \E text \in Texts, fileName \in FileNames : SaveTextWithUniqueName(text, fileName)

SpecFile == InitFile /\ [][NextFile]_vars

----------------------------------------------------------------------------
(* The chunked transcribe as a whole: the chunking of preprocess, then the  *)
(* dispatch of the chunks it returned.                                       *)

InitTranscribe ==
    /\ IdleRetry /\ IdleCleanup /\ IdlePreprocess /\ IdleRecorder /\ IdleUpload /\ IdleFile /\ IdleTab
    /\ totalSamples \in 0..MaxTotalSamples
    /\ maxSecsInput \in MaxSecsInputs
    /\ chunks = << >>
    /\ kpc = "normalized"
    /\ provider \in Providers
    /\ \E c \in ConcurrencyInputs : limit = configuredLimit(c)
    /\ response = << >>
    /\ running = 0
    /\ queue = << >>
    /\ stage = << >>
    /\ startOrder = << >>
    /\ settleOrder = << >>
    /\ calls = << >>
    /\ promise = << >>
    /\ allState = [state |-> "pending"]
    /\ tpc = "preprocessing"
    /\ fullText = << >>
    /\ outcome = [kind |-> "none"]

\* recorder.ts:265: const chunks = await this.preprocess(blob); one task, one
\* promise and one answer of the remote service per chunk
PreprocessReturns ==
    /\ tpc = "preprocessing"
    /\ kpc = "chunked"
    /\ Len(chunks) <= MaxChunks
    /\ response' \in [1..Len(chunks) -> SameAnswer[provider]]
    /\ stage' = [k \in 1..Len(chunks) |-> "new"]
    /\ calls' = [k \in 1..Len(chunks) |-> 0]
    /\ promise' = [k \in 1..Len(chunks) |-> [state |-> "pending"]]
    /\ tpc' = "preprocessed"
    /\ UNCHANGED <<provider, limit, running, queue, startOrder, settleOrder, allState,
                   fullText, outcome>>
    /\ UNCHANGED notDispVars

NextTranscribe ==
    \/ Chunking
    \/ PreprocessReturns
    \/ NextDispatch

SpecTranscribe == InitTranscribe /\ [][NextTranscribe]_vars

----------------------------------------------------------------------------
(* SettingsTab: the management of the system prompt templates.  A template  *)
(* is modelled by its name: its prompt takes part in no condition.  Every   *)
(* handler is one action, the display() it ends with included.              *)

\* what the user may type in a name field
NameInputs == {<< >>, <<" ">>, <<"a">>, <<" ", "a", " ">>, <<"b">>, <<"c">>, <<"d">>,
               DefaultName, DefaultName \o <<" ">>}

\* String.prototype.trim
RECURSIVE trimStart(_)
trimStart(t) == IF t # << >> /\ Head(t) = " " THEN trimStart(Tail(t)) ELSE t

RECURSIVE trimEnd(_)
trimEnd(t) == IF t # << >> /\ t[Len(t)] = " " THEN trimEnd(SubSeq(t, 1, Len(t) - 1)) ELSE t

trim(t) == trimEnd(trimStart(t))

nameNeverTaken(templates, name) == FALSE

\* templates.some(t => t.name === name)
nameTaken(templates, name) == \E i \in 1..Len(templates) : templates[i] = name

\* getActiveTemplate(): the list and the active name it leaves, and the index
\* of the template it returns (0: undefined).  activeName is read before the
\* 'Default' template is put back.
getActiveTemplate(templates, activeName) ==
    LET hasDefault == \E i \in 1..Len(templates) : templates[i] = DefaultName
        list == IF hasDefault THEN templates ELSE <<DefaultName>> \o templates
        name == IF ~hasDefault /\ Len(list) = 1 THEN DefaultName ELSE activeName
        found == {i \in 1..Len(list) : list[i] = activeName}
    IN IF found # {}
       THEN [templates |-> list, activeName |-> name, template |-> Lowest(found)]
       ELSE IF Len(list) > 0
            THEN [templates |-> list, activeName |-> list[1], template |-> 1]
            ELSE [templates |-> list, activeName |-> name, template |-> 0]

\* display(): the selector is filled from the list, then getActiveTemplate()
\* gives the template of the name field and of the delete button
display(templates, activeName) ==
    LET g == getActiveTemplate(templates, activeName)
    IN /\ dropdownOptions' = templates
       /\ systemPromptTemplates' = g.templates
       /\ activeSystemPromptTemplateName' = g.activeName
       /\ currentActiveTemplate' = g.template

\* the settings tab is opened on the default settings
InitTab ==
    /\ IdleDispatch /\ IdleRetry /\ IdleCleanup /\ IdlePreprocess /\ IdleChunk /\ IdleRecorder /\ IdleUpload /\ IdleFile
    /\ LET g == getActiveTemplate(<<DefaultName>>, DefaultName)
       IN /\ dropdownOptions = <<DefaultName>>
          /\ systemPromptTemplates = g.templates
          /\ activeSystemPromptTemplateName = g.activeName
          /\ currentActiveTemplate = g.template

\* the selector's onChange
SelectTemplate(value) ==
    /\ \E i \in 1..Len(dropdownOptions) : dropdownOptions[i] = value
    /\ display(systemPromptTemplates, value)
    /\ UNCHANGED notTabVars

\* the name field's onblur; the field is disabled for 'Default'
RenameTemplate(value) ==
    /\ currentActiveTemplate # 0
    /\ systemPromptTemplates[currentActiveTemplate] # DefaultName
    /\ LET newName == trim(value)
           oldName == systemPromptTemplates[currentActiveTemplate]
       IN IF newName # << >> /\ newName # oldName
             /\ ~nameTaken(systemPromptTemplates, newName)
          THEN display([systemPromptTemplates EXCEPT ![currentActiveTemplate] = newName],
                       newName)
          ELSE UNCHANGED tabVars
    /\ UNCHANGED notTabVars

\* the Delete button of the confirmation; there is no delete button for
\* 'Default'
DeleteTemplate ==
    /\ currentActiveTemplate # 0
    /\ systemPromptTemplates[currentActiveTemplate] # DefaultName
    /\ LET oldName == systemPromptTemplates[currentActiveTemplate]
       IN display(SelectSeq(systemPromptTemplates, LAMBDA t : t # oldName), DefaultName)
    /\ UNCHANGED notTabVars

\* NewTemplateModal's Save Template and the callback it submits to
CreateTemplate(value) ==
    /\ Len(systemPromptTemplates) < MaxTemplates
    /\ LET name == trim(value)
       IN IF name # << >> /\ ~nameTaken(systemPromptTemplates, name)
          THEN display(Append(systemPromptTemplates, name), name)
          ELSE UNCHANGED tabVars
    /\ UNCHANGED notTabVars

NextTab ==
    \/ \E value \in NameInputs : SelectTemplate(value)
    \/ \E value \in NameInputs : RenameTemplate(value)
    \/ DeleteTemplate
    \/ \E value \in NameInputs : CreateTemplate(value)

SpecTab == InitTab /\ [][NextTab]_vars

----------------------------------------------------------------------------
(* Properties of the dispatcher and the assembler *)

InFlight == {k \in Tasks : stage[k] \in {"encoding", "calling"}}
Settled == {k \in Tasks : stage[k] \in {"resolved", "rejected"}}
Rejected == {k \in Tasks : promise[k].state = "rejected"}

\* C1: at every moment the number of tasks that have started and not yet
\* settled is at most the limiter's limit.
C1_AtMostLimitInFlight == Cardinality(InFlight) <= limit

\* a full limiter with a task waiting, after some task has already settled
C1_Witness ==
    /\ Cardinality(InFlight) = limit
    /\ Len(queue) > 0
    /\ Len(settleOrder) > 0

\* C2: tasks are started in submission order, and (given that started tasks
\* settle) every queued task is eventually started.
C2_FifoAndStarvationFree ==
    /\ [](\A j \in 1..Len(startOrder) : startOrder[j] = j)
    /\ \A k \in 1..MaxChunks :
          (k \in Tasks /\ stage[k] = "queued") ~> (k \in Tasks /\ stage[k] # "queued")

\* a task that had to wait in the queue has been started
C2_Witness ==
    /\ Len(startOrder) > limit
    /\ Len(queue) > 0

\* the first task that settled by rejecting
RECURSIVE firstRejected(_)
firstRejected(order) ==
    IF order = << >> THEN 0
    ELSE IF Head(order) \in Rejected THEN Head(order)
         ELSE firstRejected(Tail(order))

\* C3: once a chunk task has failed, transcribe returns no transcript and no
\* joined text is produced; when it resumes it throws the first failure.
C3_BatchFailsWithoutPartialTranscript ==
    Rejected # {} =>
        /\ outcome.kind # "text"
        /\ fullText = << >>
        /\ tpc \in {"awaiting", "threw"}
        /\ tpc = "threw" =>
              /\ outcome.kind = "error"
              /\ outcome.error = promise[firstRejected(settleOrder)].reason

\* transcribe has thrown although another chunk had been transcribed
C3_Witness ==
    /\ tpc = "threw"
    /\ Rejected # {}
    /\ \E k \in Tasks : promise[k].state = "fulfilled" /\ Len(chunkResult(k).text) > 0

\* C4: the batch fails on a chunk's remote call only after that call has
\* been attempted MAX_ATTEMPTS times.
C4_BatchFailsOnlyAfterMaxAttempts ==
    (tpc = "threw" /\ outcome.kind = "error" /\ "at" \in DOMAIN outcome.error
       /\ outcome.error.at = "call")
    => calls[outcome.error.chunk] = MAX_ATTEMPTS

\* the chunk texts in ascending index order, joined by one space
RECURSIVE textsFrom(_)
textsFrom(k) ==
    IF k > NChunks THEN << >>
    ELSE LET t == IF response[k].defined THEN response[k].text ELSE << >>
         IN IF k = NChunks THEN t ELSE t \o <<" ">> \o textsFrom(k + 1)

\* C7: the assembled transcript is the chunk texts in ascending index order
\* joined by a single space, whatever the order of completion.
C7_AssembledInIndexOrder ==
    tpc = "returned" => fullText = textsFrom(1)

\* a transcript was assembled from chunks with differing texts that
\* completed out of index order
C7_Witness ==
    /\ tpc = "returned"
    /\ NChunks >= 2
    /\ \E i, j \in 1..Len(settleOrder) : i < j /\ settleOrder[i] > settleOrder[j]
    /\ response[1] # response[2]

----------------------------------------------------------------------------
(* Properties of withRetry *)

\* C5: when fn fails on every attempt, withRetry has called it exactly
\* maxAttempts times and throws one terminal error that carries the attempt
\* count and the message of the last failure.
C5_ExhaustionAfterMaxAttempts ==
    /\ invocations <= maxAttempts
    /\ Len(failures) = maxAttempts => rpc = "threw"
    /\ rpc = "threw" =>
          /\ invocations = maxAttempts
          /\ Len(failures) = maxAttempts
          /\ retryOutcome.kind = "error"
          /\ retryOutcome.error.attempts = maxAttempts
          /\ retryOutcome.error.cause = failures[maxAttempts]

\* retries were exhausted, and the last failure differs from the first
C5_Witness ==
    /\ rpc = "threw"
    /\ maxAttempts >= 2
    /\ failures[maxAttempts] # failures[1]

\* C6: attempts never overlap, the k-th wait is baseDelayMs * 2^(k-1), an
\* attempt after the first starts only when its wait has elapsed, and no
\* wait follows the final failed attempt.
C6_DeterministicBackoff ==
    /\ inFlight <= 1
    /\ rpc = "sleeping" => inFlight = 0
    /\ \A k \in 1..Len(delays) : delays[k] = baseDelayMs * 2^(k - 1)
    /\ Len(delays) < maxAttempts
    /\ Len(delays) = IF Len(failures) < maxAttempts THEN Len(failures)
                     ELSE maxAttempts - 1
    /\ invocations = Len(elapsed) + (IF rpc = "idle" THEN 0 ELSE 1)
    /\ \A k \in 1..Len(elapsed) : elapsed[k] = delays[k]
    /\ rpc = "threw" => Len(elapsed) = maxAttempts - 1

\* the defaults: three failed attempts, 1000 ms then 2000 ms waited
C6_Witness ==
    /\ rpc = "threw"
    /\ maxAttempts = MAX_ATTEMPTS
    /\ baseDelayMs = DEFAULT_BASE_DELAY_MS
    /\ elapsed = <<1000, 2000>>

----------------------------------------------------------------------------
(* Properties of the cleanup and of the silence processing *)

\* length of the maximal run of text[p] that starts at p
RECURSIVE runLength(_, _)
runLength(t, p) ==
    IF p < Len(t) /\ t[p + 1] = t[p] THEN 1 + runLength(t, p + 1) ELSE 1

\* every maximal run longer than m collapsed to one occurrence
RECURSIVE collapseRuns(_, _, _)
collapseRuns(t, p, m) ==
    IF p > Len(t) THEN << >>
    ELSE LET n == runLength(t, p)
         IN (IF n > m THEN <<t[p]>> ELSE SubSeq(t, p, p + n - 1))
            \o collapseRuns(t, p + n, m)

\* C8: for every character, each maximal run longer than maxRepeats becomes
\* a single occurrence and every other run is left unchanged.
C8_EveryLongRunCollapsed ==
    cpc = "cleaned" => cleanedText = collapseRuns(inputText, 1, inputMaxRepeats)

\* length of the maximal silent run that starts at sample p (0 if p is loud)
RECURSIVE silentRun(_, _)
silentRun(b, p) ==
    IF p <= Len(b) /\ Abs(b[p]) <= SILENCE_THRESHOLD THEN 1 + silentRun(b, p + 1) ELSE 0

MinSilenceTrimSamples == 2 * ScaledSampleRate
ReplacementSamples == ScaledSampleRate

\* the buffer with every maximal silent run of at least the threshold
\* replaced by the replacement block, everything else copied
RECURSIVE normalized(_, _)
normalized(b, p) ==
    IF p > Len(b) THEN << >>
    ELSE LET n == silentRun(b, p)
         IN IF n = 0 THEN <<b[p]>> \o normalized(b, p + 1)
            ELSE (IF n >= MinSilenceTrimSamples
                  THEN [j \in 1..ReplacementSamples |-> 0]
                  ELSE SubSeq(b, p, p + n - 1)) \o normalized(b, p + n)

\* C9: long silent runs (interior or trailing) become the replacement block,
\* short ones and all non-silent samples are copied in order.
C9_SilenceRunsReplaced ==
    spc \in {"normalized", "renormalized"} => data = normalized(rawData, 1)

\* a buffer with a short silent run that is kept, a non-silent sample and a
\* long trailing run that is replaced
C9_Witness ==
    /\ spc = "normalized"
    /\ \E p \in 1..Len(rawData) :
          /\ silentRun(rawData, p) >= MinSilenceTrimSamples
          /\ p + silentRun(rawData, p) - 1 = Len(rawData)
          /\ p > 2
          /\ rawData[p - 2] = 10
    /\ Len(data) < Len(rawData)

\* C10: after one pass no silent run of at least the threshold remains, and
\* a second pass returns the buffer unchanged.
C10_Idempotent ==
    /\ spc \in {"normalized", "renormalized"} =>
          \A p \in 1..Len(data) : silentRun(data, p) < MinSilenceTrimSamples
    /\ spc = "renormalized" => renormalized = data

\* the second pass ran on a buffer whose first pass replaced a long run
C10_Witness ==
    /\ spc = "renormalized"
    /\ \E p \in 1..Len(rawData) : silentRun(rawData, p) >= MinSilenceTrimSamples
    /\ \E p \in 1..Len(rawData) : ~isSilent(rawData[p])
    /\ data # rawData

----------------------------------------------------------------------------
(* Properties of the chunking *)

MinChunkSamples == 2 * ScaledSampleRate
OverlapSamples == 2 * ScaledSampleRate

Covered(sample) ==
    \E c \in 1..Len(chunks) :
        chunks[c].chunkStartSample <= sample /\ sample < chunks[c].endSample

NoShortChunk ==
    \A c \in 1..Len(chunks) :
        chunks[c].endSample - chunks[c].chunkStartSample >= MinChunkSamples

\* C11 as stated: for every buffer and configuration the chunks cover every
\* sample index, and no chunk is shorter than the minimum.
C11_EverySampleCovered ==
    kpc = "chunked" =>
        /\ \A sample \in 0..(totalSamples - 1) : Covered(sample)
        /\ NoShortChunk

\* C11 (amended): no chunk is shorter than the minimum; the chunks cover
\* every sample index when the buffer is at least one minimum chunk long and
\* the maximum chunk length is at least the minimum; otherwise no chunk is
\* emitted at all.
C11_CoveredUnlessTooShort ==
    kpc = "chunked" =>
        /\ NoShortChunk
        /\ IF totalSamples >= MinChunkSamples
              /\ maxSamplesOf(maxSecsInput) >= MinChunkSamples
           THEN \A sample \in 0..(totalSamples - 1) : Covered(sample)
           ELSE chunks = << >>

\* a buffer split into several chunks, the last stride shorter than the
\* minimum
C11_Witness ==
    /\ kpc = "chunked"
    /\ Len(chunks) >= 3
    /\ chunks[Len(chunks)].endSample - chunks[Len(chunks)].startSample < MinChunkSamples

\* C12: the first chunk starts at sample 0; every later chunk starts
\* overlapSamples before the end of the previous stride (not before 0),
\* which is before the end of the previous chunk, and overlaps it by exactly
\* overlapSamples when the stride boundary is at or after overlapSamples.
C12_OverlapWithPrevious ==
    kpc = "chunked" =>
        /\ Len(chunks) > 0 => chunks[1].chunkStartSample = 0
        /\ \A c \in 2..Len(chunks) :
              LET strideStart == chunks[c - 1].endSample
              IN /\ chunks[c].startSample = strideStart
                 /\ chunks[c].chunkStartSample
                      = (IF strideStart - OverlapSamples > 0
                         THEN strideStart - OverlapSamples ELSE 0)
                 /\ chunks[c].chunkStartSample < chunks[c - 1].endSample
                 /\ strideStart >= OverlapSamples =>
                      chunks[c - 1].endSample - chunks[c].chunkStartSample = OverlapSamples

\* at least two chunks, the second with a full lead-in
C12_Witness ==
    /\ kpc = "chunked"
    /\ Len(chunks) >= 2
    /\ chunks[2].chunkStartSample > 0

----------------------------------------------------------------------------
(* Properties of the RecorderService *)

RecorderFields == <<mediaRecorder, recorders, recordedChunks, startTime, pauseTime,
                    totalPausedTime, finalElapsed, stopPromise, promises, stream,
                    audioContext, sourceNode, analyserNode>>

\* C13: while Recording or Paused (no stop called), getElapsed is the time
\* spent in state Recording since the last start call, whatever start, pause
\* and resume calls were made and whatever the delays between them.
C13_ElapsedIsRecordingTime ==
    (recorderState \in {"recording", "paused"} /\ finalElapsed = << >>)
        => getElapsed = recordingMs

\* C14: from the completion of stop to the next start call, getElapsed is
\* the value that stop froze when it was called.
C14_FrozenAfterStop ==
    returned.kind = "result" => getElapsed = returned.frozen

\* C15: a stop call made while the service has no recorder (before any
\* start, or after a stop has completed) returns the empty result (no audio,
\* duration 0, size 0) and changes no field of the service.
C15_StopWithoutRecording ==
    [][(RecStop /\ mediaRecorder = 0)
        => /\ returned' = [kind |-> "early", duration |-> 0, blobs |-> 0, frozen |-> 0]
           /\ UNCHANGED RecorderFields]_vars

\* a stop call that returned early after a whole recording was stopped
C15_Witness ==
    /\ returned.kind = "early"
    /\ mediaRecorder = 0
    /\ \E q \in 1..MaxRecordings : promises[q].state = "resolved"

\* C16: a start call made while the recorder is Recording or Paused changes
\* neither the start timestamp, nor the accumulated paused time, nor the
\* recorded data, nor the recorder state.
C16_StartOnlyFromIdle ==
    [][(RecStart /\ recorderState \in {"recording", "paused"})
        => UNCHANGED <<startTime, totalPausedTime, recordedChunks, recorders>>]_vars

\* C17: the stream, the source node and the audio context of a recording are
\* never released more than once, and each has been released once when a
\* stop call has ended and none is in flight.
C17_ReleasedExactlyOnce ==
    /\ trackStops <= 1 /\ disconnects <= 1 /\ closeCalls <= 1
    /\ (returned.kind \in {"result", "threw"} /\ IdleStops = 1..MaxStops)
        => (trackStops = 1 /\ disconnects = 1 /\ closeCalls = 1)

----------------------------------------------------------------------------
(* Properties of the upload-based transcribe *)

\* C18: when the credential or the model is missing, transcribe fails with
\* the configuration error and has called neither preprocess nor the remote
\* service.
C18_FailsFastOnMissingConfig ==
    ((~upSettings.apiKey \/ ~upSettings.model) /\ upc # "called")
        => /\ upc = "failed"
           /\ upError.kind = "config"
           /\ preprocessCalls = 0
           /\ uploads + generates + deletes = 0

\* C20: delete is called at most once and only after generateContent has
\* succeeded; whether it succeeds or fails, transcribe then returns the
\* cleaned transcript, and it never returns without having called delete.
C20_DeleteIsBestEffort ==
    /\ deletes <= 1
    /\ deletes = 1 <=> upc \in {"delete", "returned"}
    /\ deleteOutcome # "none" =>
          /\ upc = "returned"
          /\ upResult = Str(cleanupRepetitiveCharacters(upFullText, DEFAULT_MAX_REPEATS))

\* the delete call failed and transcribe returned a transcript that the
\* cleanup shortened
C20_Witness ==
    /\ deleteOutcome = "failed"
    /\ upc = "returned"
    /\ Len(upResult.text) < Len(upFullText)

----------------------------------------------------------------------------
(* Properties of the FileService *)

\* C19: no save changes the content of a file that exists, and every save
\* writes its text to a path that did not exist before, the path it returns.
C19_NeverOverwrites ==
    [][/\ \A path \in Paths : vault[path].defined => vault'[path] = vault[path]
       /\ \E path \in Paths :
            /\ ~vault[path].defined
            /\ vault'[path] = Str(saved'.text)
            /\ saved'.path = path]_vars

----------------------------------------------------------------------------
(* Further properties of the ConcurrencyLimiter and of withRetry *)

\* C21: with a limit of 1 the tasks are started in the order of the task
\* list, one at a time: a task is started only when every task before it has
\* settled, and they settle in the same order.
C21_LimitOneIsSequential ==
    limit = 1 =>
        /\ \A j \in 1..Len(startOrder) : startOrder[j] = j
        /\ \A j \in 1..Len(settleOrder) : settleOrder[j] = j
        /\ Len(startOrder) <= Len(settleOrder) + 1
        /\ \A k \in Tasks : stage[k] \in {"encoding", "calling"} =>
              \A j \in 1..(k - 1) : stage[j] \in {"resolved", "rejected"}

\* three tasks run one after the other, the last one started
C21_Witness ==
    /\ limit = 1
    /\ NChunks = MaxChunks
    /\ Len(startOrder) = NChunks
    /\ Len(settleOrder) = NChunks - 1

\* C26: running counts exactly the tasks that were started and have not
\* settled, whether they then succeed or fail; the queue holds exactly the
\* tasks not yet started; no slot stays free while a task waits; and when
\* every task has settled running is 0 and the queue is empty.
C26_CounterPaired ==
    /\ running = Cardinality({k \in Tasks : stage[k] \in {"encoding", "calling"}})
    /\ Len(queue) = Cardinality({k \in Tasks : stage[k] = "queued"})
    /\ \A j \in 1..Len(queue) : stage[queue[j]] = "queued"
    /\ Len(queue) > 0 => running = limit
    /\ (tpc # "preprocessed" /\ \A k \in Tasks : stage[k] \in {"resolved", "rejected"})
          => (running = 0 /\ queue = << >>)

\* every task has settled, one of them failed while others were waiting
C26_Witness ==
    /\ NChunks > limit
    /\ Len(settleOrder) = NChunks
    /\ stage[settleOrder[1]] = "rejected"
    /\ running = 0

\* C22: when fn first succeeds on attempt k, withRetry returns the result of
\* attempt k after k invocations, k - 1 failures and k - 1 waits, with no
\* call left in flight; the terminal error is thrown only when maxAttempts
\* attempts have failed, so a success on any attempt k <= maxAttempts is
\* returned.
C22_ReturnsFirstSuccess ==
    /\ rpc = "returned" =>
          /\ retryOutcome.kind = "value"
          /\ retryOutcome.attempt = Len(failures) + 1
          /\ retryOutcome.attempt <= maxAttempts
          /\ invocations = retryOutcome.attempt
          /\ Len(delays) = Len(failures)
          /\ Len(elapsed) = Len(delays)
          /\ inFlight = 0
    /\ rpc = "threw" => Len(failures) = maxAttempts
    /\ retryOutcome.kind = "error" => rpc = "threw"

\* success on the last allowed attempt, after two failures and two waits
C22_Witness ==
    /\ rpc = "returned"
    /\ maxAttempts = MAX_ATTEMPTS
    /\ retryOutcome.attempt = maxAttempts
    /\ Len(elapsed) = 2

----------------------------------------------------------------------------
(* Further properties of the chunking *)

MaxChunkSamples ==
    (IF maxSecsInput.set THEN maxSecsInput.value ELSE 300) * ScaledSampleRate

\* C23: no emitted chunk holds more samples than the maximum chunk duration
\* allows (maxChunkSeconds times the sample rate).
C23_ChunkBounded ==
    kpc = "chunked" =>
        \A c \in 1..Len(chunks) :
            chunks[c].endSample - chunks[c].chunkStartSample <= MaxChunkSamples

----------------------------------------------------------------------------
(* Further properties of the silence processing *)

\* C24: the second pass writes exactly as many samples as the first pass
\* counted: at its end the write index equals the length of the pre-sized
\* buffer, and that length is at most the length of the input.
C24_PassesAgree ==
    spc \in {"normalized", "renormalized"} =>
        /\ writeIndex = processedLength
        /\ Len(data) = processedLength
        /\ processedLength <= Len(rawData)

\* a long interior run is replaced and a short trailing run is copied
C24_Witness ==
    /\ spc = "normalized"
    /\ Len(data) < Len(rawData)
    /\ Len(rawData) >= 2
    /\ isSilent(rawData[Len(rawData)])
    /\ ~isSilent(rawData[Len(rawData) - 1])

----------------------------------------------------------------------------
(* Further properties of the RecorderService *)

\* C25: a pause call made in any state other than Recording, and a resume
\* call made in any state other than Paused, change neither the pause
\* timestamp, nor the accumulated paused time, nor the recorder state.
C25_PauseResumeGuarded ==
    [][((RecPause /\ recorderState # "recording") \/ (RecResume /\ recorderState # "paused"))
        => UNCHANGED <<pauseTime, totalPausedTime, recorders>>]_vars

\* a recorder paused for the second time, some time ago, on which pause can
\* be called again
C25_Witness ==
    /\ recorderState = "paused"
    /\ totalPausedTime > 0
    /\ now > pauseTime
    /\ ENABLED RecPause

----------------------------------------------------------------------------
(* Further properties of the upload-based transcribe *)

----------------------------------------------------------------------------
(* Properties of the chunked transcribe as a whole *)

\* C29: for a normalized buffer shorter than the minimum chunk duration the
\* chunking emits no chunk, and with a supported provider the transcribe
\* then starts no task and makes no remote call, raises no error, and
\* returns the empty string.
C29_ShortBufferNoCall ==
    (kpc = "chunked" /\ totalSamples < MIN_CHUNK_SAMPLES) =>
        /\ chunks = << >>
        /\ provider \in {"openai", "gemini"} =>
              /\ tpc # "threw"
              /\ outcome.kind # "error"
              /\ tpc # "preprocessing" => (response = << >> /\ calls = << >> /\ stage = << >>)
              /\ startOrder = << >>
              /\ tpc = "returned" => outcome = [kind |-> "text", text |-> << >>]

\* a transcribe that returned for a buffer of some samples, fewer than the
\* minimum
C29_Witness ==
    /\ totalSamples > 0
    /\ totalSamples < MIN_CHUNK_SAMPLES
    /\ provider = "gemini"
    /\ tpc = "returned"
    /\ outcome.kind = "text"

----------------------------------------------------------------------------
(* Properties of the settings tab *)

\* C30: after any sequence of create, rename, delete and select operations
\* of the settings tab, started from the default settings, the names of the
\* templates are pairwise distinct, a template named 'Default' exists, and
\* the active template name is the name of a template of the list.
C30_TemplatesWellFormed ==
    /\ \A i, j \in 1..Len(systemPromptTemplates) :
          systemPromptTemplates[i] = systemPromptTemplates[j] => i = j
    /\ \E i \in 1..Len(systemPromptTemplates) : systemPromptTemplates[i] = DefaultName
    /\ \E i \in 1..Len(systemPromptTemplates) :
          systemPromptTemplates[i] = activeSystemPromptTemplateName

\* a full list, in an order no sequence of creations alone gives, whose
\* active template is neither 'Default' nor the last of the list
C30_Witness ==
    /\ systemPromptTemplates = <<DefaultName, <<"d">>, <<"a">>, <<"b">>>>
    /\ activeSystemPromptTemplateName = <<"d">>
    /\ dropdownOptions = systemPromptTemplates
    /\ currentActiveTemplate = 2

=============================================================================
